---- MODULE Spec2Model ----
(***************************************************************************)
(* XOR Cipher Lab: the key codec and XOR transform of utils/cryptoUtils,   *)
(* the advisory service call, and the App / KeyInput components' state     *)
(* with their asynchronous file reads.                                     *)
(*                                                                         *)
(* A byte buffer (Uint8Array / ArrayBuffer) is a sequence of 0..255.       *)
(* A JavaScript string is the sequence of its UTF-16 code units.           *)
(*                                                                         *)
(* Left out: the Encrypt / Decrypt label (it only names the download), the *)
(* options menu's open flag, the clipboard copy, and the two synchronous   *)
(* catch blocks around the FileReader set-up, which nothing can enter.     *)
(***************************************************************************)
EXTENDS Integers, Sequences, FiniteSets, Bags, TLC

NULL == "null"

Min(a, b) == IF a < b THEN a ELSE b

Range(s) == {s[i] : i \in 1..Len(s)}

RECURSIVE SeqsUpTo(_, _)
\* All sequences over S of length 0..n.
SeqsUpTo(S, n) ==
    IF n = 0 THEN {<<>>}
    ELSE LET shorter == SeqsUpTo(S, n - 1)
         IN  shorter \cup {Append(s, x) : s \in {t \in shorter : Len(t) = n - 1}, x \in S}

RECURSIVE Join(_)
\* Array.prototype.join('') of an array of strings.
Join(parts) ==
    IF Len(parts) = 0 THEN <<>> ELSE Head(parts) \o Join(Tail(parts))

\* Storing a number into a Uint8Array element keeps its low 8 bits.
ToUint8(n) == n % 256

(***************************************************************************)
(* xorBuffer                                                               *)
(***************************************************************************)

RECURSIVE BitOr(_, _)
\* A bitwise OR where the XOR belongs.
BitOr(a, b) ==
    IF a = 0 /\ b = 0 THEN 0
    ELSE (IF a % 2 = 1 \/ b % 2 = 1 THEN 1 ELSE 0) + 2 * BitOr(a \div 2, b \div 2)

RECURSIVE BitXor(_, _)
\* The JavaScript ^ operator on two non-negative integers.
BitXor(a, b) ==
    IF a = 0 /\ b = 0 THEN 0
    ELSE (((a % 2) + (b % 2)) % 2) + 2 * BitXor(a \div 2, b \div 2)

RECURSIVE XorLoop(_, _, _, _)
\* for (let i = 0; i < input.length; i++) output[i] = input[i] ^ key[i % keyLength]
XorLoop(input, key, output, i) ==
    IF i < Len(input)
    THEN XorLoop(input, key,
                 [output EXCEPT ![i + 1] =
                     ToUint8(BitXor(input[i + 1], key[(i % Len(key)) + 1]))],
                 i + 1)
    ELSE output

RECURSIVE XorLoopNoWrap(_, _, _, _)
\* The loop without the modulo: key[i] is undefined past the key's end, and
\* x ^ undefined is x.
XorLoopNoWrap(input, key, output, i) ==
    IF i < Len(input)
    THEN XorLoopNoWrap(input, key,
                 [output EXCEPT ![i + 1] =
                     IF i < Len(key) THEN ToUint8(BitXor(input[i + 1], key[i + 1]))
                     ELSE input[i + 1]],
                 i + 1)
    ELSE output

\* xorBuffer indexing the key without wrapping around.
XorBufferNoWrap(buffer, key) ==
    LET input  == buffer
        output == [j \in 1..Len(input) |-> 0]
    IN  IF Len(key) = 0 THEN buffer ELSE XorLoopNoWrap(input, key, output, 0)

\* xorBuffer returning the freshly allocated output for an empty key.
XorBufferEmptyKeyOutput(buffer, key) ==
    LET input  == buffer
        output == [j \in 1..Len(input) |-> 0]
    IN  IF Len(key) = 0 THEN output ELSE XorLoop(input, key, output, 0)

XorBuffer(buffer, key) ==
    LET input     == buffer
        output    == [j \in 1..Len(input) |-> 0]
        keyLength == Len(key)
    IN  IF keyLength = 0 THEN buffer
        ELSE XorLoop(input, key, output, 0)

(***************************************************************************)
(* hex                                                                     *)
(***************************************************************************)

\* [0-9a-fA-F]
IsHexDigit(c) == c \in (48..57) \cup (65..70) \cup (97..102)

HexDigitValue(c) ==
    IF c \in 48..57 THEN c - 48
    ELSE IF c \in 65..70 THEN c - 55
    ELSE c - 87

RECURSIVE ParseInt16(_)
\* parseInt(byte, 16) of a non-empty string of hex digits.
ParseInt16(digits) ==
    IF Len(digits) = 0 THEN 0
    ELSE 16 * ParseInt16(SubSeq(digits, 1, Len(digits) - 1))
         + HexDigitValue(digits[Len(digits)])

\* cleanHex.match(/.{1,2}/g): greedy chunks of two characters, the last one
\* of a single character when the length is odd; null (here <<>>) when there
\* is no match at all.
MatchChunks(cleanHex) ==
    [n \in 1..((Len(cleanHex) + 1) \div 2) |->
        SubSeq(cleanHex, 2 * n - 1, Min(2 * n, Len(cleanHex)))]

\* hexToUint8Array without the replace() that strips the other characters:
\* parseInt of a chunk stops at its first non-digit, NaN is stored as 0.
HexToUint8ArrayNoStrip(hex) ==
    LET matches == MatchChunks(hex)
        Prefix(chunk) ==
            IF ~IsHexDigit(chunk[1]) THEN <<>>
            ELSE IF Len(chunk) = 2 /\ IsHexDigit(chunk[2]) THEN chunk
            ELSE <<chunk[1]>>
    IN  [n \in 1..Len(matches) |-> ToUint8(ParseInt16(Prefix(matches[n])))]

HexToUint8Array(hex) ==
    LET cleanHex == SelectSeq(hex, IsHexDigit)
        matches  == MatchChunks(cleanHex)
    IN  IF Len(matches) = 0 THEN <<>>
        ELSE [n \in 1..Len(matches) |-> ToUint8(ParseInt16(matches[n]))]

\* The digits 0-9a-z of Number.prototype.toString(radix).
DigitChar(d) == IF d < 10 THEN 48 + d ELSE 87 + d

RECURSIVE ToString16(_)
\* b.toString(16)
ToString16(n) ==
    IF n < 16 THEN <<DigitChar(n)>>
    ELSE ToString16(n \div 16) \o <<DigitChar(n % 16)>>

RECURSIVE PadStart(_, _, _)
\* s.padStart(targetLength, padChar)
PadStart(s, targetLength, padChar) ==
    IF Len(s) >= targetLength THEN s
    ELSE PadStart(<<padChar>> \o s, targetLength, padChar)

\* uint8ArrayToHex without the padStart.
Uint8ArrayToHexNoPad(array) ==
    Join([i \in 1..Len(array) |-> ToString16(array[i])])

Uint8ArrayToHex(array) ==
    Join([i \in 1..Len(array) |-> PadStart(ToString16(array[i]), 2, 48)])

(***************************************************************************)
(* base64                                                                  *)
(***************************************************************************)

\* The base64 alphabet A-Z a-z 0-9 + /
B64Char(v) ==
    IF v < 26 THEN 65 + v
    ELSE IF v < 52 THEN 97 + (v - 26)
    ELSE IF v < 62 THEN 48 + (v - 52)
    ELSE IF v = 62 THEN 43
    ELSE 47

IsB64Char(c) == c \in (65..90) \cup (97..122) \cup (48..57) \cup {43, 47}

B64Value(c) ==
    IF c \in 65..90 THEN c - 65
    ELSE IF c \in 97..122 THEN c - 97 + 26
    ELSE IF c \in 48..57 THEN c - 48 + 52
    ELSE IF c = 43 THEN 62
    ELSE 63

RECURSIVE Btoa(_)
\* btoa(binary) for a string whose code units are all below 256.
Btoa(s) ==
    IF Len(s) = 0 THEN <<>>
    ELSE IF Len(s) = 1
    THEN <<B64Char(s[1] \div 4), B64Char((s[1] % 4) * 16), 61, 61>>
    ELSE IF Len(s) = 2
    THEN <<B64Char(s[1] \div 4), B64Char((s[1] % 4) * 16 + s[2] \div 16),
           B64Char((s[2] % 16) * 4), 61>>
    ELSE <<B64Char(s[1] \div 4), B64Char((s[1] % 4) * 16 + s[2] \div 16),
           B64Char((s[2] % 16) * 4 + s[3] \div 64), B64Char(s[3] % 64)>>
         \o Btoa(SubSeq(s, 4, Len(s)))

IsAsciiWhitespace(c) == c \in {9, 10, 12, 13, 32}

RECURSIVE AtobGroups(_)
\* The bytes of a validated, unpadded base64 string (length mod 4 is not 1).
AtobGroups(s) ==
    IF Len(s) = 0 THEN <<>>
    ELSE IF Len(s) = 2
    THEN <<B64Value(s[1]) * 4 + B64Value(s[2]) \div 16>>
    ELSE IF Len(s) = 3
    THEN <<B64Value(s[1]) * 4 + B64Value(s[2]) \div 16,
           (B64Value(s[2]) % 16) * 16 + B64Value(s[3]) \div 4>>
    ELSE <<B64Value(s[1]) * 4 + B64Value(s[2]) \div 16,
           (B64Value(s[2]) % 16) * 16 + B64Value(s[3]) \div 4,
           (B64Value(s[3]) % 4) * 64 + B64Value(s[4])>>
         \o AtobGroups(SubSeq(s, 5, Len(s)))

\* atob(data): strips ASCII whitespace, drops one or two trailing '=' when
\* the length is a multiple of four, throws when the rest has length 1 mod 4
\* or a character outside the alphabet.
Atob(data) ==
    LET stripped == SelectSeq(data, LAMBDA c : ~IsAsciiWhitespace(c))
        n        == Len(stripped)
        unpadded ==
            IF n % 4 = 0 /\ n > 0 /\ stripped[n] = 61
            THEN IF stripped[n - 1] = 61 THEN SubSeq(stripped, 1, n - 2)
                 ELSE SubSeq(stripped, 1, n - 1)
            ELSE stripped
    IN  IF Len(unpadded) % 4 = 1 \/ \E i \in 1..Len(unpadded) : ~IsB64Char(unpadded[i])
        THEN [threw |-> TRUE, value |-> <<>>]
        ELSE [threw |-> FALSE, value |-> AtobGroups(unpadded)]

Base64ToUint8Array(base64) ==
    LET binary == Atob(base64)
    IN  IF binary.threw THEN <<>>
        ELSE [i \in 1..Len(binary.value) |-> ToUint8(binary.value[i])]

Uint8ArrayToBase64(array) ==
    LET binary == [i \in 1..Len(array) |-> array[i]]
    IN  Btoa(binary)

(***************************************************************************)
(* text (UTF-8)                                                            *)
(***************************************************************************)

\* The marker of a malformed sequence among the decoded code points.
Malformed == -1

IsContinuation(b, lower, upper) == b >= lower /\ b <= upper

RECURSIVE Utf8CodePoints(_, _)
\* The UTF-8 decoder: the code points of bytes[i..], with Malformed where an
\* ill-formed or truncated sequence starts.
Utf8CodePoints(bytes, i) ==
    IF i > Len(bytes) THEN <<>>
    ELSE LET b1     == bytes[i]
             needed == IF b1 <= 127 THEN 0
                       ELSE IF b1 >= 194 /\ b1 <= 223 THEN 1
                       ELSE IF b1 >= 224 /\ b1 <= 239 THEN 2
                       ELSE IF b1 >= 240 /\ b1 <= 244 THEN 3
                       ELSE -1
             lower  == IF b1 = 224 THEN 160 ELSE IF b1 = 240 THEN 144 ELSE 128
             upper  == IF b1 = 237 THEN 159 ELSE IF b1 = 244 THEN 143 ELSE 191
             lead   == IF needed = 0 THEN b1
                       ELSE IF needed = 1 THEN b1 - 192
                       ELSE IF needed = 2 THEN b1 - 224
                       ELSE b1 - 240
         IN  IF needed = -1 \/ i + needed > Len(bytes) THEN <<Malformed>>
             ELSE IF needed = 0 THEN <<lead>> \o Utf8CodePoints(bytes, i + 1)
             ELSE IF ~IsContinuation(bytes[i + 1], lower, upper) THEN <<Malformed>>
             ELSE IF needed = 1
             THEN <<lead * 64 + (bytes[i + 1] - 128)>> \o Utf8CodePoints(bytes, i + 2)
             ELSE IF ~IsContinuation(bytes[i + 2], 128, 191) THEN <<Malformed>>
             ELSE IF needed = 2
             THEN <<(lead * 64 + (bytes[i + 1] - 128)) * 64 + (bytes[i + 2] - 128)>>
                  \o Utf8CodePoints(bytes, i + 3)
             ELSE IF ~IsContinuation(bytes[i + 3], 128, 191) THEN <<Malformed>>
             ELSE <<((lead * 64 + (bytes[i + 1] - 128)) * 64 + (bytes[i + 2] - 128)) * 64
                    + (bytes[i + 3] - 128)>>
                  \o Utf8CodePoints(bytes, i + 4)

RECURSIVE CodeUnits(_)
\* A code point sequence as a JavaScript string: a surrogate pair for every
\* code point above U+FFFF.
CodeUnits(cps) ==
    IF Len(cps) = 0 THEN <<>>
    ELSE LET cp == Head(cps)
         IN  (IF cp > 65535
              THEN <<55296 + ((cp - 65536) \div 1024), 56320 + ((cp - 65536) % 1024)>>
              ELSE <<cp>>)
             \o CodeUnits(Tail(cps))

\* new TextDecoder('utf-8', { fatal: true }).decode(array): throws on any
\* malformed sequence; ignoreBOM is left at its default false, so a leading
\* U+FEFF is removed from the output.
TextDecode(array) ==
    LET cps == Utf8CodePoints(array, 1)
    IN  IF Malformed \in Range(cps) THEN [threw |-> TRUE, value |-> <<>>]
        ELSE IF Len(cps) > 0 /\ cps[1] = 65279
        THEN [threw |-> FALSE, value |-> CodeUnits(Tail(cps))]
        ELSE [threw |-> FALSE, value |-> CodeUnits(cps)]

\* "[Binary Content]"
BinaryContent == <<91, 66, 105, 110, 97, 114, 121, 32, 67, 111, 110, 116, 101, 110, 116, 93>>

Uint8ArrayToString(array) ==
    LET decoded == TextDecode(array)
    IN  IF decoded.threw THEN BinaryContent ELSE decoded.value

IsHighSurrogate(u) == u >= 55296 /\ u <= 56319
IsLowSurrogate(u)  == u >= 56320 /\ u <= 57343

RECURSIVE ScalarValues(_)
\* The string as scalar values: surrogate pairs combined, a lone surrogate
\* replaced by U+FFFD.
ScalarValues(str) ==
    IF Len(str) = 0 THEN <<>>
    ELSE IF IsHighSurrogate(str[1]) /\ Len(str) >= 2 /\ IsLowSurrogate(str[2])
    THEN <<65536 + (str[1] - 55296) * 1024 + (str[2] - 56320)>>
         \o ScalarValues(SubSeq(str, 3, Len(str)))
    ELSE IF IsHighSurrogate(str[1]) \/ IsLowSurrogate(str[1])
    THEN <<65533>> \o ScalarValues(Tail(str))
    ELSE <<str[1]>> \o ScalarValues(Tail(str))

\* The UTF-8 bytes of one scalar value.
Utf8Bytes(cp) ==
    IF cp <= 127 THEN <<cp>>
    ELSE IF cp <= 2047 THEN <<192 + (cp \div 64), 128 + (cp % 64)>>
    ELSE IF cp <= 65535
    THEN <<224 + (cp \div 4096), 128 + ((cp \div 64) % 64), 128 + (cp % 64)>>
    ELSE <<240 + (cp \div 262144), 128 + ((cp \div 4096) % 64),
           128 + ((cp \div 64) % 64), 128 + (cp % 64)>>

\* new TextEncoder().encode(str)
TextEncode(str) ==
    LET cps == ScalarValues(str)
    IN  Join([i \in 1..Len(cps) |-> Utf8Bytes(cps[i])])

StringToUint8Array(str) == TextEncode(str)

(***************************************************************************)
(* Bounds and input samples                                                *)
(***************************************************************************)

MaxBufLen  == 3   \* longest byte array handed to xorBuffer and the encoders
MaxKeyLen  == 2   \* longest key handed to xorBuffer directly
MaxStrLen  == 4   \* longest string handed to the decoders
MaxUtf8Len == 4   \* longest byte array handed to uint8ArrayToString
MaxPending == 2   \* most asynchronous operations in flight at once
MaxFieldLen == 2  \* longest text typed into the key field under KeySpec

XorByteSample  == {0, 42, 72, 255}
ByteSample     == {0, 10, 173, 222, 255}
\* d E : 0 g
HexCharSample  == {100, 69, 58, 48, 103}
\* S G 8 = space !
B64CharSample  == {83, 71, 56, 61, 32, 33}
\* A, a 2-byte lead, BOM / 3-byte lead, continuations, a 4-byte lead, the
\* surrogate lead, a byte no sequence contains
Utf8ByteSample == {65, 195, 239, 187, 191, 240, 237, 255}
\* A, e-acute, the euro sign, a surrogate pair's halves, U+FEFF
CodeUnitSample == {65, 233, 8364, 55357, 56832, 65279}

\* "de:ad-BE#EF"
Scenario2 == <<100, 101, 58, 97, 100, 45, 66, 69, 35, 69, 70>>
\* "SGVsbG8="
Scenario4 == <<83, 71, 86, 115, 98, 71, 56, 61>>

\* const key = generateRandomKey(16)
KeyLength == 16
\* selectedFile.slice(0, 128)
HeaderLength == 128

\* The byte the App's random keys are filled with: 'A'
RandomByteSample == {65}

\* generateRandomKey(length): the keys crypto.getRandomValues is let to
\* produce have one byte value throughout, drawn from byteValues.
GenerateRandomKey(length, byteValues) ==
    {[i \in 1..length |-> b] : b \in byteValues}

\* The bytes KeySpec's random keys are filled with: 'A', a line feed, and
\* 0xFF, which no UTF-8 sequence contains
KeyRandomByteSample == {65, 10, 255}

\* The characters typed into the key field under KeySpec: f, !, the euro
\* sign, U+FEFF, a lone high surrogate
KeyFieldCharSample == {102, 33, 8364, 65279, 55357}

\* What the user types into the key field: "" or "!"
TypedKeys == {<<>>, <<33>>}

\* The files the user can select, by name.
Files == {"a.txt", "b.xor"}

FileContent(f) == IF f = "a.txt" THEN <<72, 101, 108>> ELSE <<0, 255>>

KeyModes == {"hex", "text", "base64"}

(***************************************************************************)
(* State                                                                   *)
(***************************************************************************)

VARIABLES
    file,             \* App: the selected file's name, or NULL
    encryptionKey,    \* App: the key field's text
    keyMode,          \* App: "hex" | "text" | "base64"
    isProcessing,     \* App
    isAnalyzing,      \* App
    analysis,         \* App: <<>> for null, <<result>> otherwise
    processedFileUrl, \* App: <<>> for null, <<blob bytes>> for an object URL
    error,            \* App: the message, or NULL
    pending,          \* the bag of file reads and service calls in flight
    cFn,              \* codec: the function under call
    cBuf,             \* codec: its byte array argument
    cKey,             \* codec: its key argument
    cStr,             \* codec: its string argument
    cRet,             \* codec: its return value
    cDone             \* codec: whether it has returned

appVars   == <<file, encryptionKey, keyMode, isProcessing, isAnalyzing, analysis,
               processedFileUrl, error, pending>>
codecVars == <<cFn, cBuf, cKey, cStr, cRet, cDone>>
vars      == <<file, encryptionKey, keyMode, isProcessing, isAnalyzing, analysis,
               processedFileUrl, error, pending,
               cFn, cBuf, cKey, cStr, cRet, cDone>>

CodecIdle ==
    /\ cFn = "none" /\ cBuf = <<>> /\ cKey = <<>> /\ cStr = <<>>
    /\ cRet = <<>> /\ cDone = FALSE

\* useState initial values, then the mount effect's random hex key.
AppInit ==
    /\ file = NULL
    /\ encryptionKey \in {Uint8ArrayToHex(key) : key \in GenerateRandomKey(KeyLength, RandomByteSample)}
    /\ keyMode = "hex"
    /\ isProcessing = FALSE
    /\ isAnalyzing = FALSE
    /\ analysis = <<>>
    /\ processedFileUrl = <<>>
    /\ error = NULL
    /\ pending = EmptyBag

Init == AppInit /\ CodecIdle

(***************************************************************************)
(* The codec functions under call                                          *)
(***************************************************************************)

CodecInit ==
    /\ file = NULL
    /\ encryptionKey = <<>>
    /\ keyMode = "hex"
    /\ isProcessing = FALSE
    /\ isAnalyzing = FALSE
    /\ analysis = <<>>
    /\ processedFileUrl = <<>>
    /\ error = NULL
    /\ pending = EmptyBag
    /\ cRet = <<>>
    /\ cDone = FALSE
    /\ \/ /\ cFn = "xorBuffer"
          /\ cBuf \in SeqsUpTo(XorByteSample, MaxBufLen)
          /\ cKey \in SeqsUpTo(XorByteSample, MaxKeyLen)
          /\ cStr = <<>>
       \/ /\ cFn \in {"uint8ArrayToHex", "uint8ArrayToBase64"}
          /\ cBuf \in SeqsUpTo(ByteSample, MaxBufLen)
          /\ cKey = <<>>
          /\ cStr = <<>>
       \/ /\ cFn = "hexToUint8Array"
          /\ cStr \in SeqsUpTo(HexCharSample, MaxStrLen) \cup {Scenario2}
          /\ cBuf = <<>>
          /\ cKey = <<>>
       \/ /\ cFn = "base64ToUint8Array"
          /\ cStr \in SeqsUpTo(B64CharSample, MaxStrLen) \cup {Scenario4}
          /\ cBuf = <<>>
          /\ cKey = <<>>
       \/ /\ cFn = "uint8ArrayToString"
          /\ cBuf \in SeqsUpTo(Utf8ByteSample, MaxUtf8Len)
          /\ cKey = <<>>
          /\ cStr = <<>>
       \/ /\ cFn = "stringToUint8Array"
          /\ cStr \in SeqsUpTo(CodeUnitSample, MaxStrLen)
          /\ cBuf = <<>>
          /\ cKey = <<>>

Return(value) ==
    /\ ~cDone
    /\ cRet' = value
    /\ cDone' = TRUE
    /\ UNCHANGED <<cFn, cBuf, cKey, cStr>>
    /\ UNCHANGED appVars

CallXorBuffer          == cFn = "xorBuffer" /\ Return(XorBuffer(cBuf, cKey))
CallUint8ArrayToHex    == cFn = "uint8ArrayToHex" /\ Return(Uint8ArrayToHex(cBuf))
CallHexToUint8Array    == cFn = "hexToUint8Array" /\ Return(HexToUint8Array(cStr))
CallUint8ArrayToBase64 == cFn = "uint8ArrayToBase64" /\ Return(Uint8ArrayToBase64(cBuf))
CallBase64ToUint8Array == cFn = "base64ToUint8Array" /\ Return(Base64ToUint8Array(cStr))
CallUint8ArrayToString == cFn = "uint8ArrayToString" /\ Return(Uint8ArrayToString(cBuf))
CallStringToUint8Array == cFn = "stringToUint8Array" /\ Return(StringToUint8Array(cStr))

CodecNext ==
    \/ CallXorBuffer
    \/ CallUint8ArrayToHex
    \/ CallHexToUint8Array
    \/ CallUint8ArrayToBase64
    \/ CallBase64ToUint8Array
    \/ CallUint8ArrayToString
    \/ CallStringToUint8Array

CodecSpec == CodecInit /\ [][CodecNext]_vars

(***************************************************************************)
(* geminiService.analyzeFileHeader                                         *)
(***************************************************************************)

\* How a call of the advisory service can end: a JSON judgment, a text
\* that is not JSON, a response without text, a rejected request.
AdvisoryOutcomes == {"ok", "unparsable", "notext", "network"}

\* The judgment the service makes of a header, as JSON.parse returns it.
ServiceJudgment(fileName, fileSize, headerHex) ==
    [suggestion             |-> "XOR is suitable as a basic obfuscation layer.",
     entropy                |-> IF fileSize > 2 THEN "0.3" ELSE "0.9",
     perceivedType          |-> IF SubSeq(headerHex, 1, 4) = <<52, 56, 54, 53>>
                                THEN "Plain text" ELSE "Unknown binary",
     isPotentiallyEncrypted |-> IF fileSize > 2 THEN "false" ELSE "true"]

\* The catch branch's static judgment.
Fallback ==
    [suggestion             |-> "Unable to analyze file content deeply, but XOR will work as a basic obfuscation layer.",
     entropy                |-> "0.5",
     perceivedType          |-> "Unknown",
     isPotentiallyEncrypted |-> "false"]

\* JSON.parse("{}"): an object with none of the four fields.
EmptyObject ==
    [suggestion             |-> "undefined",
     entropy                |-> "undefined",
     perceivedType          |-> "undefined",
     isPotentiallyEncrypted |-> "undefined"]

\* The await of generateContent is outside the try: a failed request rejects
\* the returned promise.  Inside the try, a missing text is read as "{}".
AnalyzeFileHeader(fileName, fileSize, headerHex, outcome) ==
    IF outcome = "network" THEN [rejected |-> TRUE, value |-> EmptyObject]
    ELSE IF outcome = "notext" THEN [rejected |-> FALSE, value |-> EmptyObject]
    ELSE IF outcome = "unparsable" THEN [rejected |-> FALSE, value |-> Fallback]
    ELSE [rejected |-> FALSE, value |-> ServiceJudgment(fileName, fileSize, headerHex)]

(***************************************************************************)
(* App and KeyInput                                                        *)
(***************************************************************************)

ErrNoKey  == "Please provide a valid key."
ErrRead   == "Error reading file."
ErrHeader == "Failed to read file header for analysis."

\* keyBytes, the memo both components derive from the key field and mode.
KeyBytes(keyValue, m) ==
    IF m = "hex" THEN HexToUint8Array(keyValue)
    ELSE IF m = "base64" THEN Base64ToUint8Array(keyValue)
    ELSE StringToUint8Array(keyValue)

\* An operation in flight: a FileReader read of the header ("header"), the
\* service call that follows it ("advisory"), or processFile's read of the
\* whole file ("process").  It carries what its callbacks close over, and
\* how the environment will end it: a service call as one of
\* AdvisoryOutcomes, a processing read as "load" or "error", a header read
\* as "either" (it may load or fail when it ends).
Op(kind, f, keyBytes, outcome) ==
    [kind |-> kind, file |-> f, keyBytes |-> keyBytes, outcome |-> outcome]

InFlight(kind) == {op \in BagToSet(pending) : op.kind = kind}

Start(op)    == pending (+) SetToBag({op})
Complete(op) == pending (-) SetToBag({op})

\* selectedFile.slice(0, 128), hex-encoded.
HexHeader(f) ==
    Uint8ArrayToHex(SubSeq(FileContent(f), 1, Min(HeaderLength, Len(FileContent(f)))))

\* handleFileChange with a file chosen (it returns at once without one).
HandleFileChange(selectedFile) ==
    /\ BagCardinality(pending) < MaxPending
    /\ file' = selectedFile
    /\ processedFileUrl' = <<>>
    /\ error' = NULL
    /\ analysis' = <<>>
    /\ isAnalyzing' = TRUE
    /\ pending' = Start(Op("header", selectedFile, <<>>, "either"))
    /\ UNCHANGED <<encryptionKey, keyMode, isProcessing>>
    /\ UNCHANGED codecVars

\* The header reader's onload, up to the await of analyzeFileHeader.
HeaderOnLoad(op) ==
    /\ op \in InFlight("header")
    /\ \E outcome \in AdvisoryOutcomes :
          pending' = Complete(op) (+) SetToBag({Op("advisory", op.file, <<>>, outcome)})
    /\ UNCHANGED <<file, encryptionKey, keyMode, isProcessing, isAnalyzing, analysis,
                   processedFileUrl, error>>
    /\ UNCHANGED codecVars

\* The header reader's onerror.
HeaderOnError(op) ==
    /\ op \in InFlight("header")
    /\ isAnalyzing' = FALSE
    /\ error' = ErrHeader
    /\ pending' = Complete(op)
    /\ UNCHANGED <<file, encryptionKey, keyMode, isProcessing, analysis,
                   processedFileUrl>>
    /\ UNCHANGED codecVars

\* The rest of the header reader's onload, after the await: the two setters
\* run when analyzeFileHeader resolves; when it rejects, the callback's own
\* promise rejects with nobody to handle it.
AnalysisSettled(op) ==
    /\ op \in InFlight("advisory")
    /\ LET result == AnalyzeFileHeader(op.file, Len(FileContent(op.file)),
                                       HexHeader(op.file), op.outcome)
       IN  IF result.rejected
           THEN UNCHANGED <<analysis, isAnalyzing>>
           ELSE /\ analysis' = <<result.value>>
                /\ isAnalyzing' = FALSE
    /\ pending' = Complete(op)
    /\ UNCHANGED <<file, encryptionKey, keyMode, isProcessing,
                   processedFileUrl, error>>
    /\ UNCHANGED codecVars

\* The process button is rendered while there is no result, and disabled
\* without a file, with an empty key field, or while processing.
ProcessButtonEnabled ==
    /\ processedFileUrl = <<>>
    /\ ~(file = NULL \/ Len(encryptionKey) = 0 \/ isProcessing)

\* The validation without the key length test.
RejectsNoFileOnly(f, keyBytes) == f = NULL

\* processFile's validation.
Rejects(f, keyBytes) == f = NULL \/ Len(keyBytes) = 0

\* processFile, up to reader.readAsArrayBuffer(file).
ProcessFile ==
    /\ ProcessButtonEnabled
    /\ LET keyBytes == KeyBytes(encryptionKey, keyMode)
       IN  IF Rejects(file, keyBytes)
           THEN /\ error' = ErrNoKey
                /\ UNCHANGED <<isProcessing, pending>>
           ELSE /\ BagCardinality(pending) < MaxPending
                /\ isProcessing' = TRUE
                /\ error' = NULL
                /\ \E outcome \in {"load", "error"} :
                      pending' = Start(Op("process", file, keyBytes, outcome))
    /\ UNCHANGED <<file, encryptionKey, keyMode, isAnalyzing, analysis,
                   processedFileUrl>>
    /\ UNCHANGED codecVars

\* processFile's reader.onload: the object URL stands for the blob's bytes.
ProcessOnLoad(op) ==
    /\ op \in InFlight("process")
    /\ op.outcome = "load"
    /\ LET arrayBuffer  == FileContent(op.file)
           resultBuffer == XorBuffer(arrayBuffer, op.keyBytes)
       IN  processedFileUrl' = <<resultBuffer>>
    /\ isProcessing' = FALSE
    /\ pending' = Complete(op)
    /\ UNCHANGED <<file, encryptionKey, keyMode, isAnalyzing, analysis, error>>
    /\ UNCHANGED codecVars

\* reader.onerror without the setIsProcessing(false).
ProcessOnErrorFlagLeftSet(op) ==
    /\ op \in InFlight("process")
    /\ op.outcome = "error"
    /\ error' = ErrRead
    /\ pending' = Complete(op)
    /\ UNCHANGED <<file, encryptionKey, keyMode, isProcessing, isAnalyzing, analysis,
                   processedFileUrl>>
    /\ UNCHANGED codecVars

\* processFile's reader.onerror.
ProcessOnError(op) ==
    /\ op \in InFlight("process")
    /\ op.outcome = "error"
    /\ isProcessing' = FALSE
    /\ error' = ErrRead
    /\ pending' = Complete(op)
    /\ UNCHANGED <<file, encryptionKey, keyMode, isAnalyzing, analysis,
                   processedFileUrl>>
    /\ UNCHANGED codecVars

\* "Reset & Process New File", rendered once there is a result.
ResetAndProcessNew ==
    /\ processedFileUrl # <<>>
    /\ processedFileUrl' = <<>>
    /\ file' = NULL
    /\ UNCHANGED <<encryptionKey, keyMode, isProcessing, isAnalyzing, analysis,
                   error, pending>>
    /\ UNCHANGED codecVars

\* The key field's onChange.
SetKeyValue(val) ==
    /\ val # encryptionKey
    /\ encryptionKey' = val
    /\ UNCHANGED <<file, keyMode, isProcessing, isAnalyzing, analysis,
                   processedFileUrl, error, pending>>
    /\ UNCHANGED codecVars

\* "Clear Field"
ClearField ==
    /\ encryptionKey # <<>>
    /\ encryptionKey' = <<>>
    /\ UNCHANGED <<file, keyMode, isProcessing, isAnalyzing, analysis,
                   processedFileUrl, error, pending>>
    /\ UNCHANGED codecVars

\* str.replace(/[^\x20-\x7E]/g, '?')
ReplaceNonPrintable(str) ==
    [i \in 1..Len(str) |-> IF str[i] >= 32 /\ str[i] <= 126 THEN str[i] ELSE 63]

\* handleGenerate ("Randomize Key")
HandleGenerate(newKey) ==
    /\ encryptionKey' =
          IF keyMode = "hex" THEN Uint8ArrayToHex(newKey)
          ELSE IF keyMode = "base64" THEN Uint8ArrayToBase64(newKey)
          ELSE ReplaceNonPrintable(Uint8ArrayToString(newKey))
    /\ encryptionKey' # encryptionKey
    /\ UNCHANGED <<file, keyMode, isProcessing, isAnalyzing, analysis,
                   processedFileUrl, error, pending>>
    /\ UNCHANGED codecVars

\* handleModeSwitch without the conversion: the mode changes, the field's
\* text stays.
HandleModeSwitchKeepValue(newMode) ==
    /\ newMode # keyMode
    /\ keyMode' = newMode
    /\ encryptionKey' = encryptionKey
    /\ UNCHANGED <<file, isProcessing, isAnalyzing, analysis, processedFileUrl, error, pending>>
    /\ UNCHANGED codecVars

\* handleModeSwitch (the mode buttons, and "Hex to Text" / "Text to Hex")
HandleModeSwitch(newMode) ==
    /\ newMode # keyMode
    /\ LET keyBytes == KeyBytes(encryptionKey, keyMode)
           str      == Uint8ArrayToString(keyBytes)
           newValue == IF newMode = "hex" THEN Uint8ArrayToHex(keyBytes)
                       ELSE IF newMode = "base64" THEN Uint8ArrayToBase64(keyBytes)
                       ELSE IF str = BinaryContent THEN <<>> ELSE str
       IN  /\ keyMode' = newMode
           /\ encryptionKey' = newValue
    /\ UNCHANGED <<file, isProcessing, isAnalyzing, analysis,
                   processedFileUrl, error, pending>>
    /\ UNCHANGED codecVars

Next ==
    \/ \E f \in Files : HandleFileChange(f)
    \/ \E op \in BagToSet(pending) : HeaderOnLoad(op)
    \/ \E op \in BagToSet(pending) : HeaderOnError(op)
    \/ \E op \in BagToSet(pending) : AnalysisSettled(op)
    \/ ProcessFile
    \/ \E op \in BagToSet(pending) : ProcessOnLoad(op)
    \/ \E op \in BagToSet(pending) : ProcessOnError(op)
    \/ ResetAndProcessNew
    \/ ClearField
    \/ \E val \in TypedKeys : SetKeyValue(val)
    \/ \E newKey \in GenerateRandomKey(KeyLength, RandomByteSample) : HandleGenerate(newKey)
    \/ \E m \in KeyModes : HandleModeSwitch(m)

Spec == Init /\ [][Next]_vars

(***************************************************************************)
(* The key field on its own: KeyInput's handlers over a wider range of     *)
(* typed texts and random keys, with no file selected.                     *)
(***************************************************************************)

KeyInit ==
    /\ file = NULL
    /\ encryptionKey \in {Uint8ArrayToHex(key) :
                             key \in GenerateRandomKey(KeyLength, KeyRandomByteSample)}
    /\ keyMode = "hex"
    /\ isProcessing = FALSE
    /\ isAnalyzing = FALSE
    /\ analysis = <<>>
    /\ processedFileUrl = <<>>
    /\ error = NULL
    /\ pending = EmptyBag
    /\ CodecIdle

KeyNext ==
    \/ ClearField
    \/ \E val \in SeqsUpTo(KeyFieldCharSample, MaxFieldLen) : SetKeyValue(val)
    \/ \E newKey \in GenerateRandomKey(KeyLength, KeyRandomByteSample) : HandleGenerate(newKey)
    \/ \E newMode \in KeyModes : HandleModeSwitch(newMode)

KeySpec == KeyInit /\ [][KeyNext]_vars

(***************************************************************************)
(* Properties of the codec functions, under CodecSpec                     *)
(***************************************************************************)

Returned(fn) == cFn = fn /\ cDone

\* Bit j of a non-negative integer.
Bit(x, j) == (x \div (2 ^ j)) % 2

CleanDigits(str) == SelectSeq(str, IsHexDigit)

WellFormedUtf8(bytes) == Malformed \notin Range(Utf8CodePoints(bytes, 1))

\* C1: for every input buffer and every non-empty key, xorBuffer returns a
\* buffer of the input's length whose byte i is input[i] XOR key[i mod
\* len(key)]: every bit of it is set exactly when the two bits differ.
C1_XorBufferPerByte ==
    (Returned("xorBuffer") /\ Len(cKey) > 0) =>
        /\ Len(cRet) = Len(cBuf)
        /\ \A i \in 1..Len(cBuf) :
              /\ cRet[i] \in 0..255
              /\ \A j \in 0..7 :
                    Bit(cRet[i], j) = 1 <=>
                        Bit(cBuf[i], j) # Bit(cKey[((i - 1) % Len(cKey)) + 1], j)

\* The key is shorter than the buffer, so its first byte is used again.
C1_Witness ==
    /\ Returned("xorBuffer")
    /\ Len(cKey) = 2 /\ Len(cBuf) = 3
    /\ cKey[1] # 0 /\ cKey[1] # cKey[2]
    /\ cRet[3] # cBuf[3]

\* C2: for non-empty bytes b and a non-empty key k, applying xorBuffer to
\* xorBuffer(b, k) with the same key gives b back.
C2_XorBufferInvolution ==
    (Returned("xorBuffer") /\ Len(cBuf) > 0 /\ Len(cKey) > 0) =>
        XorBuffer(cRet, cKey) = cBuf

C2_Witness ==
    /\ Returned("xorBuffer")
    /\ Len(cBuf) > 0 /\ Len(cKey) > 0
    /\ cRet # cBuf
    /\ XorBuffer(cRet, cKey) = cBuf

\* C3: with an empty key xorBuffer returns its input buffer unchanged, the
\* empty buffer included.
C3_EmptyKeyNoOp ==
    (Returned("xorBuffer") /\ Len(cKey) = 0) => cRet = cBuf

C3_Witness ==
    /\ Returned("xorBuffer")
    /\ Len(cKey) = 0
    /\ \E i \in 1..Len(cBuf) : cBuf[i] # 0
    /\ cRet = cBuf

\* C4: decoding the encoding of any byte sequence gives it back, for hex
\* (two digits per byte) and for base64.
C4_HexBase64RoundTrip ==
    /\ Returned("uint8ArrayToHex") =>
          /\ Len(cRet) = 2 * Len(cBuf)
          /\ HexToUint8Array(cRet) = cBuf
    /\ Returned("uint8ArrayToBase64") =>
          Base64ToUint8Array(cRet) = cBuf

\* A hex encoding in which a byte below 16 needed its leading zero.
C4_Witness ==
    /\ Returned("uint8ArrayToHex")
    /\ Len(cBuf) >= 2
    /\ \E i \in 1..Len(cBuf) : cBuf[i] < 16
    /\ HexToUint8Array(cRet) = cBuf

\* C5 as stated: n hex digits left after stripping yield floor(n/2) bytes,
\* a trailing lone digit being discarded.
C5_LoneDigitDiscarded ==
    Returned("hexToUint8Array") =>
        LET clean == CleanDigits(cStr)
        IN  /\ Len(cRet) = Len(clean) \div 2
            /\ \A n \in 1..Len(cRet) :
                  cRet[n] = 16 * HexDigitValue(clean[2 * n - 1]) + HexDigitValue(clean[2 * n])

\* C5 (amended): hexToUint8Array strips every character outside
\* [0-9a-fA-F] and parses the remaining digits two by two; a trailing lone
\* digit becomes a byte of its own whose value is that digit, so n digits
\* yield ceil(n/2) bytes; "de:ad-BE#EF" gives DE AD BE EF and no digit gives
\* the empty sequence.
C5_LoneDigitIsAByte ==
    Returned("hexToUint8Array") =>
        LET clean == CleanDigits(cStr)
            n     == Len(clean)
        IN  /\ Len(cRet) = (n + 1) \div 2
            /\ \A k \in 1..(n \div 2) :
                  cRet[k] = 16 * HexDigitValue(clean[2 * k - 1]) + HexDigitValue(clean[2 * k])
            /\ n % 2 = 1 => cRet[Len(cRet)] = HexDigitValue(clean[n])
            /\ cStr = Scenario2 => cRet = <<222, 173, 190, 239>>

\* An odd number of digits, three or more, among characters that are stripped.
C5_Witness ==
    /\ Returned("hexToUint8Array")
    /\ Len(CleanDigits(cStr)) % 2 = 1
    /\ Len(CleanDigits(cStr)) >= 3
    /\ Len(CleanDigits(cStr)) < Len(cStr)
    /\ cRet[Len(cRet)] = HexDigitValue(CleanDigits(cStr)[Len(CleanDigits(cStr))])

\* C10 as stated: for well-formed UTF-8 bytes b, stringToUint8Array of
\* uint8ArrayToString(b) is b; for any other b, uint8ArrayToString returns the
\* "[Binary Content]" placeholder.
C10_TextRoundTrip ==
    Returned("uint8ArrayToString") =>
        IF WellFormedUtf8(cBuf) THEN StringToUint8Array(cRet) = cBuf
        ELSE cRet = BinaryContent

(***************************************************************************)
(* Properties of the App, under Spec                                       *)
(***************************************************************************)

\* The operation leaves the bag of operations in flight in this step.
Ends(op) == CopiesIn(op, pending') < CopiesIn(op, pending)

\* The key field yields no key byte under the current mode.
ZeroByteKey == Len(KeyBytes(encryptionKey, keyMode)) = 0

\* C6: a process request made without a file or with a key field that
\* yields zero bytes sets the error message and starts no read; every read
\* that processFile starts closes over the selected file and the field's
\* key of at least one byte, so its onload never hands xorBuffer an empty key.
C6_RejectedBeforeTransform ==
    [][/\ (ProcessFile /\ (file = NULL \/ ZeroByteKey)) =>
             /\ error' = ErrNoKey
             /\ pending' = pending
             /\ isProcessing' = isProcessing
             /\ processedFileUrl' = processedFileUrl
       /\ \A op \in InFlight("process")' \ InFlight("process") :
             /\ file # NULL /\ ~ZeroByteKey
             /\ op.file = file
             /\ op.keyBytes = KeyBytes(encryptionKey, keyMode)
             /\ Len(op.keyBytes) > 0]_vars

\* A request with "!" in the field was rejected: no hex digit in hex mode,
\* not base64 in base64 mode.
C6_Witness ==
    /\ error = ErrNoKey
    /\ file # NULL
    /\ encryptionKey = <<33>>
    /\ keyMode \in {"hex", "base64"}
    /\ ZeroByteKey
    /\ InFlight("process") = {}
    /\ ~isProcessing
    /\ processedFileUrl = <<>>

\* C7 as stated: when the advisory call ends in a failure (the request
\* fails, or the response text is not JSON), the analysis becomes the static
\* fallback, the analyzing indicator is cleared, and processing is left
\* alone.
C7_AdvisoryFailureRecovered ==
    [][\A op \in InFlight("advisory") :
          (op.outcome \in {"network", "unparsable"} /\ Ends(op)) =>
              /\ analysis' = <<Fallback>>
              /\ isAnalyzing' = FALSE
              /\ isProcessing' = isProcessing
              /\ processedFileUrl' = processedFileUrl
              /\ InFlight("process")' = InFlight("process")]_vars

\* C8: a failed read in processFile ends with the error message shown, the
\* processing flag cleared, no result, and no read started again; a file
\* is still selected and the process button is enabled again for any
\* non-empty key field; and every read that does load ends with the result
\* of xorBuffer on the file's bytes.
C8_ReadFailureRecoverable ==
    [][\A op \in InFlight("process") :
          /\ (op.outcome = "error" /\ Ends(op)) =>
                /\ error' = ErrRead
                /\ isProcessing' = FALSE
                /\ processedFileUrl' = <<>>
                /\ InFlight("process")' = {}
                /\ file' # NULL
                /\ Len(encryptionKey') > 0 => ProcessButtonEnabled'
          /\ (op.outcome = "load" /\ Ends(op)) =>
                /\ processedFileUrl' = <<XorBuffer(FileContent(op.file), op.keyBytes)>>
                /\ isProcessing' = FALSE]_vars

\* After a failed read: the message is shown and the button is enabled with
\* a key of at least one byte in the field.
C8_Witness ==
    /\ error = ErrRead
    /\ ~isProcessing
    /\ processedFileUrl = <<>>
    /\ file # NULL
    /\ InFlight("process") = {}
    /\ ProcessButtonEnabled
    /\ ~ZeroByteKey

\* C9 as stated: at most one asynchronous operation (file read or advisory
\* call) is in flight at any moment.
C9_OneOperationInFlight == BagCardinality(pending) <= 1

\* C11 as stated: whenever a processing read loads, the result it offers
\* for download is the XOR transform of the file that is selected then (the
\* one the download is named after), under the key the read was started with;
\* a file selected while the read was in flight never gets the earlier file's
\* result.
C11_ResultOfSelectedFile ==
    [][\A op \in InFlight("process") :
          (op.outcome = "load" /\ Ends(op)) =>
              /\ file' # NULL
              /\ processedFileUrl' = <<XorBuffer(FileContent(file'), op.keyBytes)>>]_vars

\* C12 as stated: a service judgment shown next to the selected file is the
\* judgment of that file's header, and the analyzing indicator is off only
\* when no header read or service call for the selected file is in flight.
C12_AnalysisOfSelectedFile ==
    file # NULL =>
        /\ \A f \in Files :
              analysis = <<ServiceJudgment(f, Len(FileContent(f)), HexHeader(f))>> =>
                  f = file
        /\ ~isAnalyzing =>
              \A op \in InFlight("header") \cup InFlight("advisory") : op.file # file

(***************************************************************************)
(* Properties of the key field, under KeySpec                              *)
(***************************************************************************)

\* C13 as stated: after Randomize Key in any key mode, the key bytes derived
\* from the key field under the current mode are exactly the 16 bytes the
\* random generator produced.
C13_RandomizedKeyIsGenerated ==
    [][\A newKey \in GenerateRandomKey(KeyLength, KeyRandomByteSample) :
          HandleGenerate(newKey) =>
              KeyBytes(encryptionKey', keyMode') = newKey]_vars

\* The key bytes before and after the step.
OldKeyBytes == KeyBytes(encryptionKey, keyMode)
NewKeyBytes == KeyBytes(encryptionKey', keyMode')

\* The bytes without a leading EF BB BF.
StripBom(bytes) ==
    IF Len(bytes) >= 3 /\ SubSeq(bytes, 1, 3) = <<239, 187, 191>>
    THEN SubSeq(bytes, 4, Len(bytes))
    ELSE bytes

\* The bytes have no text form the field keeps: they are not well-formed
\* UTF-8, or they spell "[Binary Content]".
NoTextForm(bytes) ==
    \/ ~WellFormedUtf8(bytes)
    \/ StripBom(bytes) = BinaryContent

\* C14 as stated: for every key field value and every pair of modes, after
\* handleModeSwitch the bytes derived from the new field value under the new
\* mode equal the bytes derived from the old value under the old mode.
C14_ModeSwitchPreservesKey ==
    [][\A newMode \in KeyModes :
          HandleModeSwitch(newMode) => NewKeyBytes = OldKeyBytes]_vars

\* C14, amended: a switch to hex or base64 preserves the key bytes; a switch
\* to text leaves no key bytes when the old bytes are not well-formed UTF-8
\* or spell "[Binary Content]", and otherwise leaves the old bytes without a
\* leading EF BB BF.
C14_ModeSwitchKeyBytes ==
    [][\A newMode \in KeyModes :
          HandleModeSwitch(newMode) =>
              NewKeyBytes =
                  IF newMode # "text" THEN OldKeyBytes
                  ELSE IF NoTextForm(OldKeyBytes) THEN <<>>
                  ELSE StripBom(OldKeyBytes)]_vars

\* The euro sign typed as text, after a switch to hex: "e282ac" is longer
\* than any typed text and is no random key.
C14_Witness ==
    /\ keyMode = "hex"
    /\ encryptionKey = Uint8ArrayToHex(<<226, 130, 172>>)
    /\ Len(encryptionKey) > MaxFieldLen + 1

====
